---- MODULE Spec2Model ----
(***************************************************************************)
(* Media response curve tool (app.py): adstock recurrence, Hill saturation,*)
(* numerical slope / elasticity and the landmark points A, C, D.           *)
(*                                                                         *)
(* Numbers are exact rationals <<n, d>> in lowest terms with d > 0.  The   *)
(* IEEE special values the numpy expressions can produce are kept as the   *)
(* pairs with d = 0: <<0,0>> is NaN, <<1,0>> is +inf, <<-1,0>> is -inf.    *)
(* Rounding of float64 and the sign of zero are not represented.           *)
(***************************************************************************)
EXTENDS Integers, Sequences, FiniteSets, TLC

VARIABLES pc, error, assigned,
          spend, half_life, penetration, effectiveness, hill_power,
          adstocked, response, slope, elasticity,
          point_A, point_C, point_D, idx_C, idx_D

vars == <<pc, error, assigned,
          spend, half_life, penetration, effectiveness, hill_power,
          adstocked, response, slope, elasticity,
          point_A, point_C, point_D, idx_C, idx_D>>

----------------------------------------------------------------------------
(* Bounds of the explored input space *)

\* longest campaign series run through the whole script
MaxLen == 3
\* longest series passed to compute_adstock_series on its own
MaxLenAdstock == 5
\* longest series passed to compute_response_series on its own
MaxLenResponse == 2

----------------------------------------------------------------------------
(* float arithmetic on exact values *)

NaN == <<0, 0>>
PosInf == <<1, 0>>
NegInf == <<-1, 0>>
Zero == <<0, 1>>
One == <<1, 1>>
Half == <<1, 2>>

Abs(n) == IF n < 0 THEN -n ELSE n
Sign(n) == IF n > 0 THEN 1 ELSE IF n < 0 THEN -1 ELSE 0

RECURSIVE GCD(_, _)
GCD(a, b) == IF b = 0 THEN a ELSE GCD(b, a % b)

\* lowest terms; a zero denominator keeps only the sign (inf or NaN)
Norm(n, d) ==
    IF d = 0 THEN <<Sign(n), 0>>
    ELSE LET g == GCD(Abs(n), d) IN <<n \div g, d \div g>>

IsFinite(a) == a[2] # 0
IsNaN(a) == a = NaN

RNeg(a) == <<-a[1], a[2]>>

\* a + b; inf + (-inf) and anything with NaN is NaN
RAdd(a, b) ==
    IF IsNaN(a) \/ IsNaN(b) THEN NaN
    ELSE IF ~IsFinite(a) /\ ~IsFinite(b) THEN (IF a = b THEN a ELSE NaN)
    ELSE IF ~IsFinite(a) THEN a
    ELSE IF ~IsFinite(b) THEN b
    ELSE LET g == GCD(a[2], b[2])
         IN Norm(a[1] * (b[2] \div g) + b[1] * (a[2] \div g),
                 (a[2] \div g) * b[2])

RSub(a, b) == RAdd(a, RNeg(b))

\* a * b; inf * 0 and anything with NaN is NaN
RMul(a, b) ==
    IF IsNaN(a) \/ IsNaN(b) THEN NaN
    ELSE IF ~IsFinite(a) \/ ~IsFinite(b) THEN <<Sign(a[1]) * Sign(b[1]), 0>>
    ELSE LET g1 == GCD(Abs(a[1]), b[2])
             g2 == GCD(Abs(b[1]), a[2])
         IN Norm((a[1] \div g1) * (b[1] \div g2),
                 (a[2] \div g2) * (b[2] \div g1))

\* 1 / a as numpy computes it: 1/0 is inf, 1/inf is 0
Recip(a) ==
    IF IsNaN(a) THEN NaN
    ELSE IF ~IsFinite(a) THEN Zero
    ELSE IF a[1] = 0 THEN PosInf
    ELSE IF a[1] > 0 THEN <<a[2], a[1]>>
    ELSE <<-a[2], -a[1]>>

\* a / b on numpy floats: x/0 is +-inf, 0/0 is NaN, no exception
RDiv(a, b) == RMul(a, Recip(b))

\* a < b; every comparison with NaN is false
RLess(a, b) ==
    IF IsNaN(a) \/ IsNaN(b) THEN FALSE
    ELSE IF ~IsFinite(a) \/ ~IsFinite(b)
         THEN a # b /\ (a = NegInf \/ b = PosInf)
    ELSE LET g == GCD(a[2], b[2])
         IN a[1] * (b[2] \div g) < b[1] * (a[2] \div g)

\* a >= b; false when either side is NaN
RGeq(a, b) == ~IsNaN(a) /\ ~IsNaN(b) /\ ~RLess(a, b)

RECURSIVE RPowNat(_, _)
RPowNat(a, k) == IF k = 0 THEN One ELSE RMul(a, RPowNat(a, k - 1))

\* a ** k for an integer exponent k on numpy floats (0 ** -1 is inf)
RPow(a, k) == IF k >= 0 THEN RPowNat(a, k) ELSE Recip(RPowNat(a, -k))

\* results of a call: a value, or the exception that left the call
Ok(v) == [err |-> "none", val |-> v]
Raise(e) == [err |-> e, val |-> <<>>]

----------------------------------------------------------------------------
(* compute_adstock_series *)

\* variant: the lost fraction 1 - 0.5 ** (1 / half_life) taken as the decay
Decay_Complement(hl) ==
    IF hl = Zero THEN Raise("ZeroDivisionError")
    ELSE Ok(RSub(One, RPow(Half, RDiv(One, hl)[1])))

\* decay = 0.5 ** (1 / half_life); 1 / 0.0 raises ZeroDivisionError.
\* Defined for the half-lives whose inverse is an integer.
Decay(hl) ==
    IF hl = Zero THEN Raise("ZeroDivisionError")
    ELSE Ok(RPow(Half, RDiv(One, hl)[1]))

\* variant: carryover is never updated after a step
RECURSIVE AdstockLoop_StaleCarry(_, _, _, _)
AdstockLoop_StaleCarry(spend_series, decay, carryover, out) ==
    IF spend_series = <<>> THEN out
    ELSE LET current == RAdd(Head(spend_series), RMul(decay, carryover))
         IN AdstockLoop_StaleCarry(Tail(spend_series), decay, carryover,
                                   Append(out, current))

\* variant: the carryover is added without being decayed
RECURSIVE AdstockLoop_NoDecay(_, _, _, _)
AdstockLoop_NoDecay(spend_series, decay, carryover, out) ==
    IF spend_series = <<>> THEN out
    ELSE LET current == RAdd(Head(spend_series), carryover)
         IN AdstockLoop_NoDecay(Tail(spend_series), decay, current,
                                Append(out, current))

\* the for loop: carryover is the previous output
RECURSIVE AdstockLoop(_, _, _, _)
AdstockLoop(spend_series, decay, carryover, out) ==
    IF spend_series = <<>> THEN out
    ELSE LET current == RAdd(Head(spend_series), RMul(decay, carryover))
         IN AdstockLoop(Tail(spend_series), decay, current,
                        Append(out, current))

compute_adstock_series(spend_series, hl) ==
    LET decay == Decay(hl)
    IN IF decay.err # "none" THEN Raise(decay.err)
       ELSE Ok(AdstockLoop(spend_series, decay.val, Zero, <<>>))

----------------------------------------------------------------------------
(* saturation_function, compute_response_series *)

\* x**p / (x**p + penetration**p) for one element of the array, with
\* pen_p the scalar penetration ** p
SaturationElem(x, pen_p, p) ==
    LET xp == RPow(x, p) IN RDiv(xp, RAdd(xp, pen_p))

\* penetration ** p is a Python float power: 0.0 to a negative power raises
\* ZeroDivisionError; the array expressions never raise.  p is an integer
\* valued exponent <<k, 1>>.
saturation_function(adstocked_spend, pen, p) ==
    IF pen = Zero /\ p[1] < 0 THEN Raise("ZeroDivisionError")
    ELSE LET pen_p == RPow(pen, p[1])
         IN Ok([i \in 1..Len(adstocked_spend) |->
                   SaturationElem(adstocked_spend[i], pen_p, p[1])])

\* returns the pair (response, adstocked)
compute_response_series(spend_series, hl, pen, eff, p) ==
    LET ads == compute_adstock_series(spend_series, hl)
    IN IF ads.err # "none" THEN Raise(ads.err)
       ELSE LET saturated == saturation_function(ads.val, pen, p)
            IN IF saturated.err # "none" THEN Raise(saturated.err)
               ELSE Ok(<<[i \in 1..Len(saturated.val) |->
                            RMul(eff, saturated.val[i])],
                         ads.val>>)

----------------------------------------------------------------------------
(* np.gradient(f, x) and compute_elasticity *)

Two == <<2, 1>>

\* np.diff(x)
Diff(x) == [i \in 1..(Len(x) - 1) |-> RSub(x[i + 1], x[i])]

\* (diffx == diffx[0]).all()
Uniform(diffx) ==
    \A i \in 1..Len(diffx) : ~IsNaN(diffx[i]) /\ diffx[i] = diffx[1]

\* interior point, constant spacing h: (f[i+1] - f[i-1]) / (2 h)
GradUniform(f, h, i) == RDiv(RSub(f[i + 1], f[i - 1]), RMul(Two, h))

\* interior point, uneven spacing: a f[i-1] + b f[i] + c f[i+1]
GradNonUniform(f, diffx, i) ==
    LET dx1 == diffx[i - 1]
        dx2 == diffx[i]
        a == RNeg(RDiv(dx2, RMul(dx1, RAdd(dx1, dx2))))
        b == RDiv(RSub(dx2, dx1), RMul(dx1, dx2))
        c == RDiv(dx1, RMul(dx2, RAdd(dx1, dx2)))
    IN RAdd(RAdd(RMul(a, f[i - 1]), RMul(b, f[i])), RMul(c, f[i + 1]))

\* first-order one-sided differences at both ends, second-order inside.
\* diffx[0] on the empty difference array of a series shorter than two
\* samples raises IndexError.
Gradient(f, x) ==
    LET n == Len(f)
        diffx == Diff(x)
    IN IF n < 2 THEN Raise("IndexError")
       ELSE Ok([i \in 1..n |->
                  IF i = 1 THEN RDiv(RSub(f[2], f[1]), diffx[1])
                  ELSE IF i = n
                       THEN RDiv(RSub(f[n], f[n - 1]), diffx[n - 1])
                  ELSE IF Uniform(diffx) THEN GradUniform(f, diffx[1], i)
                  ELSE GradNonUniform(f, diffx, i)])

\* variant: the zero-response mask is left out
ElasticityElem_NoMask(dy, x, y) == RMul(dy, RDiv(x, y))

\* np.where(response != 0, dy * (adstocked / response), 0)
ElasticityElem(dy, x, y) ==
    IF y # Zero THEN RMul(dy, RDiv(x, y)) ELSE Zero

\* returns the pair (dy, elasticity)
compute_elasticity(resp, ads) ==
    LET dy == Gradient(resp, ads)
    IN IF dy.err # "none" THEN Raise(dy.err)
       ELSE Ok(<<dy.val,
                 [i \in 1..Len(resp) |->
                     ElasticityElem(dy.val[i], ads[i], resp[i])]>>)

----------------------------------------------------------------------------
(* landmark search *)

Hundredth == <<1, 100>>

\* slope.max(): NaN if any element is NaN
RECURSIVE SlopeMaxFrom(_, _, _)
SlopeMaxFrom(s, i, m) ==
    IF i > Len(s) THEN m
    ELSE IF IsNaN(m) \/ IsNaN(s[i]) THEN NaN
    ELSE SlopeMaxFrom(s, i + 1, IF RLess(m, s[i]) THEN s[i] ELSE m)

SlopeMax(s) == SlopeMaxFrom(s, 2, s[1])

\* np.where(slope < threshold)[0]: the matching indices (1-based here)
Matches(s, threshold) == {i \in 1..Len(s) : RLess(s[i], threshold)}

Min(S) == CHOOSE i \in S : \A j \in S : i <= j

Max(S) == CHOOSE i \in S : \A j \in S : i >= j

\* variant: the last matching index is taken
FirstIndex_Last(s, threshold) ==
    LET m == Matches(s, threshold)
    IN IF m = {} THEN [err |-> "IndexError", val |-> 0]
       ELSE [err |-> "none", val |-> Max(m)]

\* np.where(...)[0][0]: first matching index, IndexError on no match
FirstIndex(s, threshold) ==
    LET m == Matches(s, threshold)
    IN IF m = {} THEN [err |-> "IndexError", val |-> 0]
       ELSE [err |-> "none", val |-> Min(m)]

\* slope.max() * 0.5
SlopeThreshold(s) == RMul(SlopeMax(s), Half)

----------------------------------------------------------------------------
(* inputs *)

Rat(S) == {<<n, 1>> : n \in S}

\* values of the Spend column
SpendVals == Rat({0, 4, 12})

SeriesUpTo(n) == UNION {[1..k -> SpendVals] : k \in 0..n}

\* sidebar widgets: each number_input only yields values inside its
\* [min_value, max_value] range
HalfLives == {<<1, 1>>, <<1, 2>>}
Penetrations == Rat({1, 3})
Effectivenesses == Rat({1, 2})
HillPowers == Rat({1})

\* arguments of a direct call of compute_adstock_series
HalfLivesAny == {<<1, 1>>, <<1, 2>>, <<1, 3>>, <<0, 1>>, <<-1, 1>>}

\* arguments of a direct call of compute_response_series
ParamsAny == Rat({-1, 0, 1})

\* widget defaults (value=...)
DefaultHalfLife == <<7, 1>>
DefaultPenetration == <<2000, 1>>
DefaultEffectiveness == <<500, 1>>
DefaultHillPower == <<1, 2>>

Names == {"adstocked", "response", "slope", "elasticity",
          "point_A", "point_C", "point_D"}

\* nothing derived has been assigned yet
Cleared ==
    /\ error' = "none"
    /\ assigned' = {}
    /\ adstocked' = <<>>
    /\ response' = <<>>
    /\ slope' = <<>>
    /\ elasticity' = <<>>
    /\ point_A' = <<>>
    /\ point_C' = <<>>
    /\ point_D' = <<>>
    /\ idx_C' = 0
    /\ idx_D' = 0

----------------------------------------------------------------------------
(* the script *)

\* no file uploaded: the else branch of "if uploaded_file"
Init ==
    /\ pc = "waiting"
    /\ error = "none"
    /\ assigned = {}
    /\ spend = <<>>
    /\ half_life = DefaultHalfLife
    /\ penetration = DefaultPenetration
    /\ effectiveness = DefaultEffectiveness
    /\ hill_power = DefaultHillPower
    /\ adstocked = <<>>
    /\ response = <<>>
    /\ slope = <<>>
    /\ elasticity = <<>>
    /\ point_A = <<>>
    /\ point_C = <<>>
    /\ point_D = <<>>
    /\ idx_C = 0
    /\ idx_D = 0

\* the run is over: rendered, rejected, or left by an exception
Ended == pc \in {"rendered", "rejected"} \/ error # "none"

\* A (re)run of the script: the widgets are read, the file is parsed, the
\* required columns are checked and the selected campaign's rows are
\* taken in date order.
Upload ==
    /\ pc = "waiting" \/ Ended
    /\ \E sp \in SeriesUpTo(MaxLen), hl \in HalfLives, pen \in Penetrations,
          eff \in Effectivenesses, p \in HillPowers, cols \in BOOLEAN :
         /\ half_life' = hl
         /\ penetration' = pen
         /\ effectiveness' = eff
         /\ hill_power' = p
         /\ IF cols
            THEN spend' = sp /\ pc' = "loaded"
            ELSE spend' = <<>> /\ pc' = "rejected"
    /\ Cleared

\* response, adstocked = compute_response_series(...); two new columns
ComputeResponse ==
    /\ pc = "loaded" /\ error = "none"
    /\ pc' = "response"
    /\ LET r == compute_response_series(spend, half_life, penetration,
                                        effectiveness, hill_power)
       IN /\ error' = r.err
          /\ IF r.err = "none"
             THEN /\ response' = r.val[1]
                  /\ adstocked' = r.val[2]
                  /\ assigned' = assigned \cup {"adstocked", "response"}
             ELSE UNCHANGED <<response, adstocked, assigned>>
    /\ UNCHANGED <<spend, half_life, penetration, effectiveness, hill_power,
                   slope, elasticity, point_A, point_C, point_D, idx_C, idx_D>>

\* slope, elasticity = compute_elasticity(response, adstocked)
ComputeElasticity ==
    /\ pc = "response" /\ error = "none"
    /\ pc' = "elasticity"
    /\ LET r == compute_elasticity(response, adstocked)
       IN /\ error' = r.err
          /\ IF r.err = "none"
             THEN /\ slope' = r.val[1]
                  /\ elasticity' = r.val[2]
                  /\ assigned' = assigned \cup {"slope", "elasticity"}
             ELSE UNCHANGED <<slope, elasticity, assigned>>
    /\ UNCHANGED <<spend, half_life, penetration, effectiveness, hill_power,
                   adstocked, response, point_A, point_C, point_D,
                   idx_C, idx_D>>

\* point A: (penetration, effectiveness * pen**p / (pen**p + pen**p))
PointAOf(pen, eff, p) ==
    LET pp == RPow(pen, p[1])
    IN <<pen, RMul(eff, RDiv(pp, RAdd(pp, pp)))>>

PointA ==
    /\ pc = "elasticity" /\ error = "none"
    /\ pc' = "point_A"
    /\ point_A' = PointAOf(penetration, effectiveness, hill_power)
    /\ assigned' = assigned \cup {"point_A"}
    /\ UNCHANGED <<error, spend, half_life, penetration, effectiveness,
                   hill_power, adstocked, response, slope, elasticity,
                   point_C, point_D, idx_C, idx_D>>

\* point C: first index with slope < 50% of the maximum slope
PointC ==
    /\ pc = "point_A" /\ error = "none"
    /\ pc' = "point_C"
    /\ LET r == FirstIndex(slope, SlopeThreshold(slope))
       IN /\ error' = r.err
          /\ IF r.err = "none"
             THEN /\ idx_C' = r.val
                  /\ point_C' = <<adstocked[r.val], response[r.val]>>
                  /\ assigned' = assigned \cup {"point_C"}
             ELSE UNCHANGED <<idx_C, point_C, assigned>>
    /\ UNCHANGED <<spend, half_life, penetration, effectiveness, hill_power,
                   adstocked, response, slope, elasticity, point_A,
                   point_D, idx_D>>

\* point D: first index with slope < 0.01
PointD ==
    /\ pc = "point_C" /\ error = "none"
    /\ pc' = "point_D"
    /\ LET r == FirstIndex(slope, Hundredth)
       IN /\ error' = r.err
          /\ IF r.err = "none"
             THEN /\ idx_D' = r.val
                  /\ point_D' = <<adstocked[r.val], response[r.val]>>
                  /\ assigned' = assigned \cup {"point_D"}
             ELSE UNCHANGED <<idx_D, point_D, assigned>>
    /\ UNCHANGED <<spend, half_life, penetration, effectiveness, hill_power,
                   adstocked, response, slope, elasticity, point_A,
                   point_C, idx_C>>

\* the two plots, the elasticity metric and the data table are drawn
Render ==
    /\ pc = "point_D" /\ error = "none"
    /\ pc' = "rendered"
    /\ UNCHANGED <<error, assigned, spend, half_life, penetration,
                   effectiveness, hill_power, adstocked, response, slope,
                   elasticity, point_A, point_C, point_D, idx_C, idx_D>>

Next ==
    \/ Upload
    \/ ComputeResponse
    \/ ComputeElasticity
    \/ PointA
    \/ PointC
    \/ PointD
    \/ Render

Spec == Init /\ [][Next]_vars

----------------------------------------------------------------------------
(* compute_adstock_series called on its own *)

InitAdstock ==
    /\ pc = "call_adstock"
    /\ error = "none"
    /\ assigned = {}
    /\ spend \in SeriesUpTo(MaxLenAdstock)
    /\ half_life \in HalfLivesAny
    /\ penetration = DefaultPenetration
    /\ effectiveness = DefaultEffectiveness
    /\ hill_power = DefaultHillPower
    /\ adstocked = <<>>
    /\ response = <<>>
    /\ slope = <<>>
    /\ elasticity = <<>>
    /\ point_A = <<>>
    /\ point_C = <<>>
    /\ point_D = <<>>
    /\ idx_C = 0
    /\ idx_D = 0

AdstockCall ==
    /\ pc = "call_adstock"
    /\ pc' = "adstock_returned"
    /\ LET r == compute_adstock_series(spend, half_life)
       IN /\ error' = r.err
          /\ adstocked' = r.val
          /\ assigned' = IF r.err = "none" THEN {"adstocked"} ELSE {}
    /\ UNCHANGED <<spend, half_life, penetration, effectiveness, hill_power,
                   response, slope, elasticity, point_A, point_C, point_D,
                   idx_C, idx_D>>

NextAdstock == AdstockCall

SpecAdstock == InitAdstock /\ [][NextAdstock]_vars

----------------------------------------------------------------------------
(* compute_response_series called on its own *)

InitResponse ==
    /\ pc = "call_response"
    /\ error = "none"
    /\ assigned = {}
    /\ spend \in SeriesUpTo(MaxLenResponse)
    /\ half_life \in ParamsAny
    /\ penetration \in ParamsAny
    /\ effectiveness \in ParamsAny
    /\ hill_power \in ParamsAny
    /\ adstocked = <<>>
    /\ response = <<>>
    /\ slope = <<>>
    /\ elasticity = <<>>
    /\ point_A = <<>>
    /\ point_C = <<>>
    /\ point_D = <<>>
    /\ idx_C = 0
    /\ idx_D = 0

ResponseCall ==
    /\ pc = "call_response"
    /\ pc' = "response_returned"
    /\ LET r == compute_response_series(spend, half_life, penetration,
                                        effectiveness, hill_power)
       IN /\ error' = r.err
          /\ IF r.err = "none"
             THEN /\ response' = r.val[1]
                  /\ adstocked' = r.val[2]
                  /\ assigned' = {"adstocked", "response"}
             ELSE UNCHANGED <<response, adstocked, assigned>>
    /\ UNCHANGED <<spend, half_life, penetration, effectiveness, hill_power,
                   slope, elasticity, point_A, point_C, point_D,
                   idx_C, idx_D>>

NextResponse == ResponseCall

SpecResponse == InitResponse /\ [][NextResponse]_vars

----------------------------------------------------------------------------
(* properties of compute_adstock_series (SpecAdstock) *)

AdstockReturned == pc = "adstock_returned" /\ error = "none"
Positive(a) == RLess(Zero, a)
ConstantSpend ==
    /\ Len(spend) >= 1
    /\ Positive(spend[1])
    /\ \A i \in 1..Len(spend) : spend[i] = spend[1]

\* C6: for a positive half-life the output has the length of the input,
\* adstocked[0] = spend[0] and adstocked[i] = spend[i] + decay *
\* adstocked[i-1] for every later i; an empty input gives an empty output.
C6_AdstockRecurrence ==
    (AdstockReturned /\ Positive(half_life)) =>
        /\ Len(adstocked) = Len(spend)
        /\ (spend = <<>> => adstocked = <<>>)
        /\ \A i \in 1..Len(spend) :
             adstocked[i] =
                 IF i = 1 THEN spend[1]
                 ELSE RAdd(spend[i],
                           RMul(Decay(half_life).val, adstocked[i - 1]))

C6_Witness ==
    /\ AdstockReturned /\ Positive(half_life)
    /\ Len(spend) >= 3
    /\ Positive(spend[1]) /\ Positive(spend[2])
    /\ adstocked[3] # spend[3]

\* carryover contribution at step i: adstocked[i] - spend[i]
Carry(a, i) == RSub(a[i], spend[i])

\* the same spend scanned with another half-life
AdstockWith(hl) == compute_adstock_series(spend, hl).val

Faster(hl) == {f \in HalfLivesAny : Positive(f) /\ RLess(f, hl)}

\* C9 as stated: with a slow and a fast decay on the same spend, the slow
\* series has strictly greater carryover contribution at every step beyond
\* the first.
C9_Original ==
    (AdstockReturned /\ Positive(half_life)) =>
        \A f \in Faster(half_life) : \A i \in 2..Len(spend) :
            RLess(Carry(AdstockWith(f), i), Carry(adstocked, i))

\* C9 amended: the slow series has strictly greater carryover contribution
\* at every step beyond the first that follows a positive spend; at a step
\* preceded only by zero spend both contributions are zero.
C9_HalfLifeOrdering ==
    (AdstockReturned /\ Positive(half_life)) =>
        \A f \in Faster(half_life) : \A i \in 2..Len(spend) :
            IF \E j \in 1..(i - 1) : Positive(spend[j])
            THEN RLess(Carry(AdstockWith(f), i), Carry(adstocked, i))
            ELSE Carry(AdstockWith(f), i) = Zero /\ Carry(adstocked, i) = Zero

C9_Witness ==
    /\ AdstockReturned /\ Positive(half_life)
    /\ Faster(half_life) # {}
    /\ Len(spend) >= 3
    /\ spend[1] = Zero /\ Positive(spend[2])

----------------------------------------------------------------------------
(* properties of compute_response_series (SpecResponse) *)

NonPositive(a) == ~Positive(a)

\* C4: a call with any of half-life, penetration, effectiveness or shape
\* exponent <= 0 reports InvalidParameter before computing anything and
\* produces no adstocked or response series.
C4_InvalidParameter ==
    (/\ pc = "response_returned"
     /\ \/ NonPositive(half_life)
        \/ NonPositive(penetration)
        \/ NonPositive(effectiveness)
        \/ NonPositive(hill_power))
    => (error = "InvalidParameter" /\ assigned = {})

----------------------------------------------------------------------------
(* properties of the script (Spec) *)

SlopeKnown == "slope" \in assigned
NoMatchC == SlopeKnown /\ Matches(slope, SlopeThreshold(slope)) = {}
NoMatchD == SlopeKnown /\ Matches(slope, Hundredth) = {}

\* C1: when no index has slope < 0.5 * max(slope), the point C search ends
\* with a detectable not-found outcome and raises no exception from the
\* index lookup.
C1_PointCNotFound ==
    (pc \in {"point_C", "point_D", "rendered"} /\ NoMatchC) =>
        (error = "none" /\ "point_C" \notin assigned)

\* C2: when no index has slope < 0.01, the point D search ends with a
\* detectable not-found outcome and raises no exception from the index
\* lookup.
C2_PointDNotFound ==
    (pc \in {"point_D", "rendered"} /\ NoMatchD) =>
        (error = "none" /\ "point_D" \notin assigned)

\* C3: a missing landmark is local: when point C or point D is not found the
\* run still completes with the four series and point A produced, and the
\* other landmark is searched and reported if it exists.
C3_MissingLandmarkIsLocal ==
    (Ended /\ (NoMatchC \/ NoMatchD)) =>
        /\ error = "none"
        /\ {"adstocked", "response", "slope", "elasticity", "point_A"}
               \subseteq assigned
        /\ (~NoMatchC => "point_C" \in assigned)
        /\ (~NoMatchD => "point_D" \in assigned)

\* C5: a series of fewer than two samples fails with InsufficientData
\* before the derivative is computed: no slope, no elasticity, no landmark
\* search.
C5_InsufficientData ==
    (Ended /\ pc # "rejected" /\ Len(spend) < 2) =>
        /\ error = "InsufficientData"
        /\ assigned \cap {"slope", "elasticity", "point_C", "point_D"} = {}

\* C7: wherever the response is 0 the elasticity is 0 whatever the slope
\* (also an undefined one); elsewhere it is slope * (adstocked / response).
C7_ElasticityZeroConvention ==
    "elasticity" \in assigned =>
        /\ Len(elasticity) = Len(response)
        /\ \A i \in 1..Len(response) :
             IF response[i] = Zero
             THEN elasticity[i] = Zero
             ELSE elasticity[i] =
                      RMul(slope[i], RDiv(adstocked[i], response[i]))

C7_Witness ==
    /\ "elasticity" \in assigned
    /\ \E i \in 1..Len(response) : response[i] = Zero /\ IsNaN(slope[i])
    /\ \E i \in 1..Len(response) :
         response[i] # Zero /\ elasticity[i] # Zero

\* the largest slope, when every slope is a number
MaxSlope ==
    CHOOSE m \in {slope[i] : i \in 1..Len(slope)} :
        \A j \in 1..Len(slope) : RGeq(m, slope[j])

\* C8: a found point D is at the first index with slope < 0.01 (all earlier
\* slopes >= 0.01), a found point C at the first index with slope < 0.5 *
\* max(slope) (all earlier slopes >= that), and the reported point is
\* (adstocked[idx], response[idx]).
C8_FirstMatchingIndex ==
    /\ "point_D" \in assigned =>
         /\ RLess(slope[idx_D], Hundredth)
         /\ \A j \in 1..(idx_D - 1) : RGeq(slope[j], Hundredth)
         /\ point_D = <<adstocked[idx_D], response[idx_D]>>
    /\ "point_C" \in assigned =>
         /\ RLess(slope[idx_C], RMul(Half, MaxSlope))
         /\ \A j \in 1..(idx_C - 1) : RGeq(slope[j], RMul(Half, MaxSlope))
         /\ point_C = <<adstocked[idx_C], response[idx_C]>>

C8_Witness ==
    /\ "point_D" \in assigned /\ "point_C" \in assigned
    /\ idx_C > 1 /\ idx_D > idx_C

====
